---- MODULE Spec2Model ----
(***************************************************************************)
(* Model of backend/main.py: the chat gateway of the Radius Recycling      *)
(* chatbot.  The state is the module-level list chat_history, the flag     *)
(* ENDPOINT_SUPPORTS_FEEDBACK computed at import time, and the environment *)
(* the handlers talk to: requests that arrived and wait for their handler, *)
(* the results of the inference call, the external feedback calls made,    *)
(* the wall clock read by datetime.now(), and the object a caller got back *)
(* from a history read.                                                    *)
(*                                                                         *)
(* Every handler is an `async def` without any await: query_endpoint and   *)
(* submit_feedback are plain blocking calls.  On the event loop a handler  *)
(* therefore runs from its first to its last statement without another     *)
(* handler running in between, and each handler is one action here.        *)
(***************************************************************************)
EXTENDS Integers, Sequences, FiniteSets, TLC

VARIABLES chat_history,                 \* contents of the list the global names
          ENDPOINT_SUPPORTS_FEEDBACK,   \* main.py:50
          inflight,                     \* chat requests received, handler not yet run (arrival order)
          clock,                        \* number of datetime.now() readings taken so far
          resp,                         \* what the last handler gave back to its caller
          completed,                    \* exchanges of the successful chats since the last clear
          returned,                     \* the list object handed out by the last history read
          feedback_calls                \* the calls the external submit_feedback has received

vars == <<chat_history, ENDPOINT_SUPPORTS_FEEDBACK, inflight, clock, resp,
          completed, returned, feedback_calls>>

-----------------------------------------------------------------------------
(* Bounds *)
MaxClock == 102      \* chats that may succeed in a long run
MaxShort == 2        \* chats that may succeed in a run with free inputs
MaxInFlight == 2     \* chat requests waiting for their handler at once
MaxMessages == 2     \* entries of a message list returned by the inference call

(* Program constants *)
HistoryLimit == 100

None == "<None>"     \* Python's None, also the result of dict.get on a missing key

FALLBACK == "I'm sorry, I couldn't generate a response. Please try again."

-----------------------------------------------------------------------------
(* Values *)
Roles == {"assistant", "user"}
Contents == {None, "", "hi", "yo"}
Entries == [role : Roles, content : Contents]
MessageLists == UNION {[1..n -> Entries] : n \in 0..MaxMessages}

\* The outcomes of query_endpoint: it raises, or it returns (messages, request_id);
\* iterable = FALSE is a returned `messages` that is None.
Raised == [raised |-> TRUE, iterable |-> TRUE, messages |-> <<>>, request_id |-> None]
NotIterable == [raised |-> FALSE, iterable |-> FALSE, messages |-> <<>>, request_id |-> None]
Returned(msgs, rid) == [raised |-> FALSE, iterable |-> TRUE, messages |-> msgs, request_id |-> rid]
NoCall == [raised |-> FALSE, iterable |-> TRUE, messages |-> <<>>, request_id |-> None]

AllResponses == {Raised, NotIterable} \cup {Returned(m, r) : m \in MessageLists, r \in {None, "r1"}}
FewResponses == {Raised, NotIterable,
                 Returned(<<[role |-> "assistant", content |-> "hi"]>>, "r1"),
                 Returned(<<>>, None)}
LongResponses == {Raised, NotIterable, Returned(<<[role |-> "assistant", content |-> "hi"]>>, "r1")}

\* Python truthiness of a str-or-None value
Truthy(x) == x # None /\ x # ""

Min(a, b) == IF a < b THEN a ELSE b

\* the last n elements of s
LastN(s, n) == SubSeq(s, Len(s) - n + 1, Len(s))

\* s without its i-th element
Without(s, i) == SubSeq(s, 1, i - 1) \o SubSeq(s, i + 1, Len(s))

-----------------------------------------------------------------------------
(* chat, lines 103-111: the scan for the assistant's reply *)
RECURSIVE scan_no_content_test(_, _)
scan_no_content_test(msgs, i) ==
    IF i > Len(msgs) THEN ""
    ELSE IF msgs[i].role = "assistant"
         THEN (IF msgs[i].content = None THEN "" ELSE msgs[i].content)
         ELSE scan_no_content_test(msgs, i + 1)

RECURSIVE scan_no_break(_, _)
scan_no_break(msgs, i) ==
    IF i > Len(msgs) THEN ""
    ELSE LET rest == scan_no_break(msgs, i + 1)
         IN  IF rest # "" THEN rest
             ELSE IF msgs[i].role = "assistant" /\ Truthy(msgs[i].content)
                  THEN msgs[i].content ELSE ""

RECURSIVE scan(_, _)
scan(msgs, i) ==
    IF i > Len(msgs) THEN ""
    ELSE IF msgs[i].role = "assistant" /\ Truthy(msgs[i].content)
         THEN msgs[i].content
         ELSE scan(msgs, i + 1)

assistant_message(msgs) ==
    LET found == scan(msgs, 1)
    IN  IF ~Truthy(found) THEN FALLBACK ELSE found

\* the statements of the try block that raise: the inference call itself,
\* or the for loop over a result that is not iterable
raises_call_only(r) == r.raised

raises(r) == r.raised \/ ~r.iterable

(* chat, lines 120-130: append, then drop the oldest when over the limit *)
store_no_evict(h, e) == Append(h, e)

store_evict_newest(h, e) ==
    LET a == Append(h, e)
    IN  IF Len(a) > HistoryLimit THEN SubSeq(a, 1, Len(a) - 1) ELSE a

store_prepend(h, e) ==
    LET a == <<e>> \o h
    IN  IF Len(a) > HistoryLimit THEN SubSeq(a, 1, Len(a) - 1) ELSE a

store(h, e) ==
    LET a == Append(h, e)
    IN  IF Len(a) > HistoryLimit THEN Tail(a) ELSE a

\* what a handler gives back (status, body fields); unused fields are None / empty.
\* picked, inference and was_full record the handler's inputs: which waiting
\* request a successful chat served, what query_endpoint did, and whether a clear
\* found chat_history at its limit.
Reply(op, status) ==
    [op |-> op, status |-> status, message |-> None, timestamp |-> 0,
     request_id |-> None, history |-> <<>>, picked |-> 0, inference |-> NoCall,
     was_full |-> FALSE]

NoHold == [kept |-> FALSE, live |-> FALSE, contents |-> <<>>, at_return |-> <<>>]

\* the list object a reader holds sees every in-place change of the list
\* (append, pop) for as long as it is the object the global names
in_place(ret, new) == IF ret.kept /\ ret.live THEN [ret EXCEPT !.contents = new] ELSE ret

\* `chat_history = []` binds the global to a new list; a list handed out
\* earlier stays as it was
rebind(ret) == IF ret.kept THEN [ret EXCEPT !.live = FALSE] ELSE ret

-----------------------------------------------------------------------------
Init ==
    /\ chat_history = <<>>
    /\ ENDPOINT_SUPPORTS_FEEDBACK \in BOOLEAN
    /\ inflight = <<>>
    /\ clock = 0
    /\ resp = Reply("none", 0)
    /\ completed = <<>>
    /\ returned = NoHold
    /\ feedback_calls = {}

\* a POST /api/chat request reaches the server; its handler runs later
arrive(m) ==
    /\ Len(inflight) < MaxInFlight
    /\ inflight' = Append(inflight, m)
    /\ UNCHANGED <<chat_history, ENDPOINT_SUPPORTS_FEEDBACK, clock, resp,
                   completed, returned, feedback_calls>>

\* the handler of the i-th waiting request runs; r is what query_endpoint does
chat(i, r) ==
    /\ i \in 1..Len(inflight)
    /\ clock < MaxClock
    /\ inflight' = Without(inflight, i)
    /\ IF raises(r)
       THEN /\ resp' = [Reply("chat", 500) EXCEPT !.inference = r]
            /\ UNCHANGED <<chat_history, clock, completed, returned>>
       ELSE LET now == clock + 1
                response == [message |-> assistant_message(r.messages),
                             timestamp |-> now,
                             request_id |-> r.request_id]
                exchange == [user_message |-> inflight[i],
                             assistant_message |-> response.message,
                             timestamp |-> response.timestamp,
                             request_id |-> response.request_id]
                stored == store(chat_history, exchange)
            IN  /\ clock' = now
                /\ chat_history' = stored
                /\ returned' = in_place(returned, stored)
                /\ completed' = Append(completed, exchange)
                /\ resp' = [Reply("chat", 200) EXCEPT !.message = response.message,
                                                      !.timestamp = response.timestamp,
                                                      !.request_id = response.request_id,
                                                      !.picked = i, !.inference = r]
    /\ UNCHANGED <<ENDPOINT_SUPPORTS_FEEDBACK, feedback_calls>>

\* GET /api/chat/history; keep: the caller holds on to the object it got
get_chat_history(keep) ==
    /\ resp' = [Reply("history", 200) EXCEPT !.history = chat_history]
    /\ returned' = IF keep
                   THEN [kept |-> TRUE, live |-> TRUE,
                         contents |-> chat_history, at_return |-> chat_history]
                   ELSE NoHold
    /\ UNCHANGED <<chat_history, ENDPOINT_SUPPORTS_FEEDBACK, inflight, clock,
                   completed, feedback_calls>>

\* DELETE /api/chat/history
clear_leaves_list ==
    /\ resp' = [Reply("clear", 200) EXCEPT !.was_full = (Len(chat_history) = HistoryLimit)]
    /\ UNCHANGED <<chat_history, ENDPOINT_SUPPORTS_FEEDBACK, inflight, clock,
                   completed, returned, feedback_calls>>

clear_chat_history ==
    /\ chat_history' = <<>>
    /\ returned' = rebind(returned)
    /\ completed' = <<>>
    /\ resp' = [Reply("clear", 200) EXCEPT !.was_full = (Len(chat_history) = HistoryLimit)]
    /\ UNCHANGED <<ENDPOINT_SUPPORTS_FEEDBACK, inflight, clock, feedback_calls>>

\* line 157: the test that lets a submission through to the external call
feedback_unguarded(flag) == TRUE

feedback_allowed(flag) == flag

\* POST /api/feedback; ok: the external submit_feedback returns instead of raising
submit_chat_feedback(request_id, rating, ok) ==
    /\ IF ~feedback_allowed(ENDPOINT_SUPPORTS_FEEDBACK)
       THEN \* HTTPException(400) is raised inside the try block and caught by
            \* `except Exception`, which raises HTTPException(500) in its place
            /\ resp' = [Reply("feedback", 500) EXCEPT !.request_id = request_id]
            /\ UNCHANGED feedback_calls
       ELSE /\ feedback_calls' = feedback_calls \cup
                                  {[request_id |-> request_id, rating |-> rating]}
            /\ resp' = [Reply("feedback", IF ok THEN 200 ELSE 500)
                          EXCEPT !.request_id = request_id]
    /\ UNCHANGED <<chat_history, ENDPOINT_SUPPORTS_FEEDBACK, inflight, clock,
                   completed, returned>>

-----------------------------------------------------------------------------
(* Runs with free inputs, a few chats long *)
Next ==
    \/ \E m \in {"a", "b"} : arrive(m)
    \/ \E i \in 1..MaxInFlight, r \in FewResponses : clock < MaxShort /\ chat(i, r)
    \/ \E keep \in BOOLEAN : get_chat_history(keep)
    \/ clear_chat_history
    \/ \E arg \in {<<"r1", 1>>, <<"r2", -1>>}, ok \in BOOLEAN :
          submit_chat_feedback(arg[1], arg[2], ok)

Spec == Init /\ [][Next]_vars

(* Runs over every message list the inference call may return *)
NextExtract ==
    \/ arrive("a")
    \/ \E i \in 1..MaxInFlight, r \in AllResponses : clock < 1 /\ chat(i, r)
    \/ get_chat_history(FALSE)

SpecExtract == Init /\ [][NextExtract]_vars

(* Long runs: more chats than the history holds, one request text, a reader *)
(* that does not keep the list it was given                                *)
NextLong ==
    \/ arrive("a")
    \/ \E i \in 1..MaxInFlight, r \in LongResponses : chat(i, r)
    \/ get_chat_history(FALSE)
    \/ clear_chat_history
    \/ submit_chat_feedback("r1", 1, TRUE)

SpecLong == Init /\ [][NextLong]_vars

-----------------------------------------------------------------------------
(* Properties *)

\* C1: in every reachable state the history holds at most 100 exchanges
C1_AtMostLimit == Len(chat_history) <= 100

\* a full history from which the oldest exchange has been dropped
C1_Witness == Len(chat_history) = 100 /\ Len(completed) > 100

\* C2: a history read after N successful chats since the history was last empty
\* returns exactly the last min(N, 100) of them, oldest first: all N of them
\* when N <= 100, and without the oldest N - 100 otherwise
C2_ReadIsLastCompleted ==
    resp.op = "history" =>
        LET N == Len(completed)
        IN  /\ Len(resp.history) = Min(N, 100)
            /\ \A k \in 1..Len(resp.history) :
                  resp.history[k] = completed[k + (N - Len(resp.history))]

\* a read after more chats than the history holds
C2_Witness ==
    /\ resp.op = "history"
    /\ Len(completed) = 102
    /\ Len(resp.history) = 100
    /\ resp.history[1].timestamp = completed[3].timestamp

\* the step of a chat handler: one waiting request is consumed
ChatStep == Len(inflight') < Len(inflight)

\* C3: a chat whose inference call raises, or whose later statements raise,
\* answers 500 and leaves the history exactly as it was
C3_FailureLeavesHistory ==
    [][(ChatStep /\ (resp'.inference.raised \/ ~resp'.inference.iterable))
          => (resp'.op = "chat" /\ resp'.status = 500 /\ chat_history' = chat_history)]_vars

\* a full history after a chat that failed past the inference call
C3_Witness ==
    /\ resp.op = "chat" /\ resp.status = 500
    /\ ~resp.inference.raised /\ ~resp.inference.iterable
    /\ Len(chat_history) = 100

\* C4: a feedback submission while the flag is false is answered with 400
C4_UnsupportedIs400 ==
    (resp.op = "feedback" /\ ~ENDPOINT_SUPPORTS_FEEDBACK) => resp.status = 400

\* C5: while the flag is false no submission reaches the external
\* submit_feedback, and the flag never changes after startup
C5_NoExternalCall ==
    /\ [](~ENDPOINT_SUPPORTS_FEEDBACK => feedback_calls = {})
    /\ [][ENDPOINT_SUPPORTS_FEEDBACK' = ENDPOINT_SUPPORTS_FEEDBACK]_vars

\* a submission was answered while the flag is false
C5_Witness ==
    resp.op = "feedback" /\ ~ENDPOINT_SUPPORTS_FEEDBACK /\ feedback_calls = {}

\* entry i of msgs is an assistant entry with content that is present and non-empty
Qualifies(msgs, i) ==
    msgs[i].role = "assistant" /\ msgs[i].content \notin {None, ""}

\* C6: the reply of a successful chat, returned and stored, is the content of
\* the first assistant entry with non-empty content, and the fixed fallback
\* text when the list has no such entry
C6_FirstNonEmptyOrFallback ==
    (resp.op = "chat" /\ resp.status = 200) =>
        LET msgs == resp.inference.messages
        IN  /\ IF \E i \in 1..Len(msgs) : Qualifies(msgs, i)
               THEN \E i \in 1..Len(msgs) :
                       /\ Qualifies(msgs, i)
                       /\ \A j \in 1..(i - 1) : ~Qualifies(msgs, j)
                       /\ resp.message = msgs[i].content
               ELSE resp.message = "I'm sorry, I couldn't generate a response. Please try again."
            /\ chat_history # <<>>
            /\ chat_history[Len(chat_history)].assistant_message = resp.message

\* the fallback was stored for a list whose only assistant entry has no content
C6_Witness ==
    /\ resp.op = "chat" /\ resp.status = 200
    /\ resp.inference.messages = <<[role |-> "user", content |-> "hi"],
                                   [role |-> "assistant", content |-> None]>>
    /\ chat_history[1].assistant_message =
          "I'm sorry, I couldn't generate a response. Please try again."

AssistantAt(msgs) == {i \in 1..Len(msgs) : msgs[i].role = "assistant"}

FirstOf(S) == CHOOSE i \in S : \A j \in S : i <= j

\* C7 as stated: with more than one assistant entry the reply is the content
\* of the first assistant entry
C7_FirstAssistantEntry ==
    (resp.op = "chat" /\ resp.status = 200
       /\ Cardinality(AssistantAt(resp.inference.messages)) > 1) =>
        resp.message =
            resp.inference.messages[FirstOf(AssistantAt(resp.inference.messages))].content

\* C7 amended: with more than one assistant entry, one of them with non-empty
\* content, the reply is the content of the first assistant entry whose
\* content is non-empty, whatever the later assistant entries hold
C7_FirstNonEmptyAssistantEntry ==
    LET msgs == resp.inference.messages
        nonEmpty == {i \in AssistantAt(msgs) : Truthy(msgs[i].content)}
    IN  (resp.op = "chat" /\ resp.status = 200
           /\ Cardinality(AssistantAt(msgs)) > 1 /\ nonEmpty # {}) =>
            resp.message = msgs[FirstOf(nonEmpty)].content

\* two assistant entries with different non-empty contents
C7_Witness ==
    /\ resp.op = "chat" /\ resp.status = 200
    /\ resp.inference.messages = <<[role |-> "assistant", content |-> "hi"],
                                   [role |-> "assistant", content |-> "yo"]>>
    /\ resp.message = "hi"

\* C8: a clear always succeeds and leaves the history empty, whatever it held;
\* a read right after a clear returns the empty sequence; the first successful
\* chat after a clear leaves exactly its own exchange in the history
C8_ClearThenReadEmpty ==
    [][/\ resp'.op = "clear" => (resp'.status = 200 /\ chat_history' = <<>>)
       /\ (resp.op = "clear" /\ resp'.op = "history") => resp'.history = <<>>
       /\ (resp.op = "clear" /\ ChatStep /\ resp'.status = 200) =>
             /\ Len(chat_history') = 1
             /\ chat_history'[1].timestamp = resp'.timestamp
             /\ chat_history'[1].assistant_message = resp'.message]_vars

\* a full history has just been cleared
C8_Witness == resp.op = "clear" /\ resp.was_full /\ chat_history = <<>>

\* C9: whichever waiting request completes next, its handler adds exactly its
\* own exchange at the end of the history and drops the oldest exchange only
\* when the history was full; an arriving request changes nothing; the
\* history is always in completion order
C9_CompletionOrder ==
    /\ [][/\ (ChatStep /\ resp'.status = 200) =>
               \E i \in 1..Len(inflight) :
                  /\ inflight' = Without(inflight, i)
                  /\ LET e == [user_message |-> inflight[i],
                               assistant_message |-> resp'.message,
                               timestamp |-> resp'.timestamp,
                               request_id |-> resp'.request_id]
                         all == chat_history \o <<e>>
                     IN  chat_history' = LastN(all, Min(Len(all), 100))
          /\ Len(inflight') > Len(inflight) => chat_history' = chat_history]_vars
    /\ [](\A k \in 1..(Len(chat_history) - 1) :
             chat_history[k].timestamp < chat_history[k + 1].timestamp)

\* the request that arrived second completed first, the other one still
\* waits, and its exchange displaced the oldest one of a full history
C9_Witness ==
    /\ resp.op = "chat" /\ resp.status = 200 /\ resp.picked = 2
    /\ Len(inflight) = 1
    /\ Len(chat_history) = 100 /\ Len(completed) > 100
    /\ chat_history[100].timestamp = resp.timestamp

\* C10: the sequence a history read returned stays what it was when returned
C10_ReadIsSnapshot == returned.kept => returned.contents = returned.at_return

====
